---- MODULE Spec2Model ----
(***************************************************************************)
(* Model of src/lib/octokit.ts: the webhook reconciler createGithubItem    *)
(* and the volunteer coordinator assignIssueToVolunteer, over the prisma   *)
(* record store and the remote code-hosting platform.                      *)
(***************************************************************************)
EXTENDS Integers, Sequences, FiniteSets, TLC

VARIABLES
    db,               \* the prisma store: repository, user, label, githubItem, volunteerDetail
    last,             \* <<>> or <<r>>: the createGithubItem call that was the previous step
    remoteAssignees,  \* remote platform: issue number -> logins assigned to it
    pc,               \* per assignment request: the await it is suspended at
    user,             \* per assignment request: the User argument
    items,            \* per assignment request: the candidate list argument
    idx,              \* per assignment request: the loop variable i
    trace,            \* per assignment request: store, remote and slack calls made so far
    outcome,          \* per assignment request: how the call ended
    hadClaim,         \* per assignment request: did its volunteer hold a claim when it was called
    webhook           \* createGithubItem calls in flight together: per call its await and
                      \* locals, and per node id the workflow records created so far

vars == <<db, last, remoteAssignees, pc, user, items, idx, trace, outcome, hadClaim, webhook>>

assignVars == <<remoteAssignees, pc, user, items, idx, trace, outcome, hadClaim>>

-----------------------------------------------------------------------------
(* Bounds of the model *)

\* longest candidate list handed to assignIssueToVolunteer
MaxCands == 2

-----------------------------------------------------------------------------
(* Configuration and payload domains *)

\* repositories the project mapping knows (getProjectName is truthy) and one it does not
MonitoredUrls == {"R1"}

\* getMaintainers({repoUrl}): github logins of the maintainers of a repository
getMaintainers(repoUrl) == IF repoUrl = "R1" THEN {"maint"} ELSE {}

\* getProjectName({repoUrl}): "" (falsy) for a repository outside the mapping
getProjectName(repoUrl) == IF repoUrl \in MonitoredUrls THEN "demo" ELSE ""

\* node identifiers, as strings of characters
NodeI1 == <<"I", "_", "1">>

NodePR2 == <<"P", "R", "_", "2">>

NodeI3 == <<"I", "_", "3">>

NodeI4 == <<"I", "_", "4">>

NodeIds == {NodeI1, NodePR2, NodeI3, NodeI4}

\* the per-repository sequence number the remote platform gave each item
NumberOf(nodeId) ==
    IF nodeId = NodeI1 THEN 7 ELSE IF nodeId = NodePR2 THEN 8 ELSE IF nodeId = NodeI3 THEN 9 ELSE 1

\* the author of each remote item: I_3 was opened by a maintainer
LoginOf(nodeId) == IF nodeId = NodeI3 THEN "maint" ELSE "alice"

\* the repository of each remote item: I_4 lives in the unmonitored one
UrlOf(nodeId) == IF nodeId = NodeI4 THEN "R2" ELSE "R1"

LabelLists == {<<>>, <<"A", "B">>, <<"B", "C">>}

\* a payload body is null in the first version of an item and text in the second
NullBody == "null"

BodyAt(t) == IF t = 1 THEN NullBody ELSE "b"

Times == {1, 2}

RepoNames == {"n1", "n2"}

\* the webhook payload of item nodeId at time t, its repository then named name
Event(nodeId, name, labels, t) ==
    [node_id |-> nodeId, login |-> LoginOf(nodeId), url |-> UrlOf(nodeId),
     name |-> name, owner |-> "o1", title |-> "t", body |-> BodyAt(t),
     number |-> NumberOf(nodeId), labels |-> labels, created_at |-> 1, updated_at |-> t]

\* the deliveries considered: every version of I_1, two of PR_2, and one per
\* repository name of the maintainer's item and of the unmonitored item
Payloads ==
    {Event(NodeI1, name, ls, t) : name \in RepoNames, ls \in LabelLists, t \in Times}
    \cup {Event(NodePR2, "n1", ls, 1) : ls \in {<<>>, <<"B", "C">>}}
    \cup {Event(n, name, <<"A", "B">>, 1) : n \in {NodeI3, NodeI4}, name \in RepoNames}

\* the User rows that exist before any webhook: a linked volunteer, a second
\* linked volunteer, one without github username, one without token
InitUsers ==
    << [githubUsername |-> "carol", githubToken |-> "tok1"],
       [githubUsername |-> "dave",  githubToken |-> "tok2"],
       [githubUsername |-> "",      githubToken |-> "tok3"],
       [githubUsername |-> "erin",  githubToken |-> ""] >>

\* the users who ask to volunteer
Volunteers == {1, 2, 3, 4}

EmptyDb ==
    [repository |-> << >>, user |-> InitUsers, label |-> {},
     githubItem |-> << >>, volunteerDetail |-> << >>]

-----------------------------------------------------------------------------
(* Helpers *)

Range(s) == {s[k] : k \in DOMAIN s}

\* startsWith with receiver and argument exchanged
startsWithSwapped(s, prefix) ==
    /\ Len(prefix) >= Len(s)
    /\ \A k \in 1..Len(s) : prefix[k] = s[k]

\* String.prototype.startsWith on strings held as sequences of characters
startsWith(s, prefix) ==
    /\ Len(s) >= Len(prefix)
    /\ \A k \in 1..Len(prefix) : s[k] = prefix[k]

\* item.body || ""
OrEmpty(body) == IF body = NullBody \/ body = "" THEN "" ELSE body

\* f with key k bound to v (insert or overwrite)
Put(f, k, v) == [x \in (DOMAIN f) \cup {k} |-> IF x = k THEN v ELSE f[x]]

-----------------------------------------------------------------------------
(* createGithubItem: its store operations *)

\* prisma.repository.upsert by url
repositoryUpsert(d, P) ==
    [d EXCEPT !.repository =
        IF P.url \in DOMAIN d.repository
        THEN Put(d.repository, P.url, [d.repository[P.url] EXCEPT !.name = P.name, !.owner = P.owner])
        ELSE Put(d.repository, P.url, [name |-> P.name, owner |-> P.owner, url |-> P.url])]

\* a lookup that never finds the author
userFindFirstNone(d, login) == 0

\* prisma.user.findFirst by githubUsername: the row's id, 0 when there is none
userFindFirst(d, login) ==
    IF \E k \in DOMAIN d.user : d.user[k].githubUsername = login
    THEN CHOOSE k \in DOMAIN d.user :
            /\ d.user[k].githubUsername = login
            /\ \A j \in DOMAIN d.user : d.user[j].githubUsername = login => k <= j
    ELSE 0

\* prisma.user.create with the username only
userCreate(d, login) ==
    [d EXCEPT !.user = Append(d.user, [githubUsername |-> login, githubToken |-> ""])]

\* prisma.actionItem.findFirst by the github item's nodeId: resolvedAt of the
\* row found, 0 (null) when there is no row or it is unresolved
actionItemResolvedAt(d, nodeId) ==
    IF nodeId \in DOMAIN d.githubItem THEN d.githubItem[nodeId].actionItem.resolvedAt ELSE 0

\* the create branch of prisma.githubItem.upsert
githubItemCreate(P, authorId, repoUrl) ==
    [author |-> authorId,
     repository |-> repoUrl,
     nodeId |-> P.node_id,
     title |-> P.title,
     body |-> OrEmpty(P.body),
     number |-> P.number,
     state |-> "open",
     type |-> IF startsWith(P.node_id, <<"I", "_">>) THEN "issue" ELSE "pull_request",
     createdAt |-> P.created_at,
     updatedAt |-> P.updated_at,
     labelsOnItems |-> Range(P.labels),
     actionItem |-> [status |-> "open", totalReplies |-> 0, resolvedAt |-> 0,
                     participants |-> {}]]

\* the update branch without its deleteMany
updateLabelsOnItemsKeep(old, P) == old \cup Range(P.labels)

\* the label rows written by the update branch: deleteMany, then one per payload label
updateLabelsOnItems(old, P) == Range(P.labels)

\* an update branch that reopens the workflow record whatever its resolution
githubItemUpdateReopen(row, P, resolvedAt) ==
    [row EXCEPT !.state = "open",
                !.title = P.title,
                !.body = OrEmpty(P.body),
                !.updatedAt = P.updated_at,
                !.labelsOnItems = updateLabelsOnItems(row.labelsOnItems, P),
                !.actionItem.status = "open",
                !.actionItem.participants = {}]

\* an update branch that also resets the resolution and the reply count
githubItemUpdateReset(row, P, resolvedAt) ==
    [row EXCEPT !.state = "open",
                !.title = P.title,
                !.body = OrEmpty(P.body),
                !.updatedAt = P.updated_at,
                !.labelsOnItems = updateLabelsOnItems(row.labelsOnItems, P),
                !.actionItem.status = "open",
                !.actionItem.resolvedAt = 0,
                !.actionItem.totalReplies = 0,
                !.actionItem.participants = {}]

\* the update branch of prisma.githubItem.upsert
githubItemUpdate(row, P, resolvedAt) ==
    [row EXCEPT !.state = "open",
                !.title = P.title,
                !.body = OrEmpty(P.body),
                !.updatedAt = P.updated_at,
                !.labelsOnItems = updateLabelsOnItems(row.labelsOnItems, P),
                !.actionItem.status = IF resolvedAt # 0 THEN "closed" ELSE "open",
                !.actionItem.participants = {}]

\* prisma.githubItem.upsert by nodeId, with its nested label connectOrCreate
githubItemUpsert(d, P, authorId, repoUrl, resolvedAt) ==
    [d EXCEPT !.githubItem =
                 IF P.node_id \in DOMAIN d.githubItem
                 THEN Put(d.githubItem, P.node_id, githubItemUpdate(d.githubItem[P.node_id], P, resolvedAt))
                 ELSE Put(d.githubItem, P.node_id, githubItemCreate(P, authorId, repoUrl)),
              !.label = d.label \cup Range(P.labels)]

\* the project check left out
unmonitoredNever(project) == FALSE

\* if (!project) return
unmonitored(project) == project = ""

\* the maintainer check left out
maintainerAuthoredNever(maintainers, login) == FALSE

\* maintainers.find((maintainer) => maintainer?.github === item.user.login)
maintainerAuthored(maintainers, login) == login \in maintainers

\* the awaited store operations of createGithubItem, any of which may reject
StoreOps == {"repositoryUpsert", "userFindFirst", "userCreate", "actionItemFindFirst",
             "githubItemUpsert"}

\* createGithubItem(payload) run from store d, the store operation `fail` (if it
\* is reached) rejecting: the store left behind, how the call ended, and whether
\* indexDocument was called
createGithubItem(d, P, fail) ==
    LET project == getProjectName(P.url)
        d1      == repositoryUpsert(d, P)
        found   == userFindFirst(d1, P.login)
        d2      == IF found = 0 THEN userCreate(d1, P.login) ELSE d1
        author  == IF found = 0 THEN Len(d2.user) ELSE found
        d3      == githubItemUpsert(d2, P, author, P.url, actionItemResolvedAt(d2, P.node_id))
    IN  IF unmonitored(project) THEN [db |-> d, result |-> "returned", indexed |-> FALSE]
        ELSE IF fail = "repositoryUpsert" THEN [db |-> d, result |-> "thrown", indexed |-> FALSE]
        ELSE IF maintainerAuthored(getMaintainers(P.url), P.login)
             THEN [db |-> d1, result |-> "returned", indexed |-> FALSE]
        ELSE IF fail = "userFindFirst" \/ (fail = "userCreate" /\ found = 0)
             THEN [db |-> d1, result |-> "thrown", indexed |-> FALSE]
        ELSE IF fail = "actionItemFindFirst" \/ fail = "githubItemUpsert"
             THEN [db |-> d2, result |-> "thrown", indexed |-> FALSE]
        ELSE [db |-> d3, result |-> "done", indexed |-> TRUE]

\* a webhook delivery handled from start to end
CreateGithubItem(P, fail) ==
    LET r == createGithubItem(db, P, fail)
    IN  /\ db' = r.db
        /\ last' = <<[result |-> r.result, indexed |-> r.indexed,
                      payload |-> IF r.result = "done" THEN <<P>> ELSE << >>]>>
        /\ UNCHANGED <<assignVars, webhook>>

\* elsewhere in the service: an item's workflow record is resolved
EnvResolve(nodeId) ==
    /\ nodeId \in DOMAIN db.githubItem
    /\ db.githubItem[nodeId].actionItem.resolvedAt = 0
    /\ db' = [db EXCEPT !.githubItem[nodeId].actionItem.resolvedAt = 1,
                        !.githubItem[nodeId].actionItem.status = "closed"]
    /\ last' = << >>
    /\ UNCHANGED <<assignVars, webhook>>

\* elsewhere in the service: someone replies on an item and becomes a participant
EnvReply(nodeId) ==
    /\ nodeId \in DOMAIN db.githubItem
    /\ db.githubItem[nodeId].actionItem.totalReplies = 0
    /\ db' = [db EXCEPT !.githubItem[nodeId].actionItem.totalReplies = 1,
                        !.githubItem[nodeId].actionItem.participants = {"bob"}]
    /\ last' = << >>
    /\ UNCHANGED <<assignVars, webhook>>

-----------------------------------------------------------------------------
(* assignIssueToVolunteer *)

\* the assignment requests that may be in flight together
Procs == {1, 2}

\* an ActionItem whose githubItem is null (one backed by a slack message)
NoItem == << >>

\* the store after I_1 and PR_2 have been reconciled
ReconciledDb ==
    createGithubItem(
        createGithubItem(EmptyDb, Event(NodeI1, "n1", <<"A", "B">>, 1), "none").db,
        Event(NodePR2, "n1", << >>, 1), "none").db

\* the store the volunteers work against: user 4 took PR_2 while its token
\* was still on record, nobody else holds a claim
AssignDb == [ReconciledDb EXCEPT !.volunteerDetail = <<[assignee |-> 4, issue |-> NodePR2]>>]

\* candidate lists: distinct action items, each backed by a stored item or by none
Candidates == DOMAIN AssignDb.githubItem \cup {NoItem}

CandidateLists ==
    {its \in UNION {[1..n -> Candidates] : n \in 0..MaxCands} :
        \A j, k \in DOMAIN its : j # k => its[j] # its[k]}

\* the first index >= from of a candidate with a githubItem (the loop's
\* `continue` over the others), Len(its) + 1 when the loop runs out
NextCand(its, from) ==
    IF \E k \in from..Len(its) : its[k] # NoItem
    THEN CHOOSE k \in from..Len(its) :
            its[k] # NoItem /\ \A j \in from..(k - 1) : its[j] = NoItem
    ELSE Len(its) + 1

\* where the for loop goes from index `from`: the next remote call, or past the loop
LoopPc(its, from) == IF NextCand(its, from) <= Len(its) THEN "getOctokitToken" ELSE "volunteerDetailCreate"

\* prisma.volunteerDetail.create: the table takes any row (insert-only)
volunteerDetailInsert(rows, row) == Append(rows, row)

\* a lookup that never finds the volunteer's row
volunteerDetailFindFirstNone(rows, userId) == FALSE

\* prisma.volunteerDetail.findFirst({where: {assignee: {id}}}): is there a row
volunteerDetailFindFirst(rows, userId) == \E k \in DOMAIN rows : rows[k].assignee = userId

\* the issue the created claim is connected to: items[0].githubItem?.id
claimedIssue(its, i) == its[1]

\* the Volunteer Claim rows of user u
ClaimsOf(u) == {k \in DOMAIN db.volunteerDetail : db.volunteerDetail[k].assignee = u}

\* the identity a call is made with: the comment goes out through userOctokit
\* (the volunteer's token), the other platform calls through the app's octokit
authOf(op) ==
    IF op = "issues.createComment" THEN "volunteer"
    ELSE IF op \in {"getOctokitToken", "issues.get", "issues.addAssignees"} THEN "app"
    ELSE "local"

\* one call made by a request: what, on which issue number (0: none), whether
\* it succeeded, and as whom
Called(op, n, ok) == [op |-> op, n |-> n, ok |-> ok, auth |-> authOf(op)]

Log(p, op, n, ok) == trace' = [trace EXCEPT ![p] = Append(@, Called(op, n, ok))]

End(p, how) ==
    /\ pc' = [pc EXCEPT ![p] = "done"]
    /\ outcome' = [outcome EXCEPT ![p] = how]

\* the guard written with && for ||
needsIdentityLinkBoth(u) == u.githubToken = "" /\ u.githubUsername = ""

\* !user.githubToken || !user.githubUsername
needsIdentityLink(u) == u.githubToken = "" \/ u.githubUsername = ""

\* githubItem?.number of a candidate, 0 for a candidate without githubItem
NumberAt(cand) == IF cand = NoItem THEN 0 ELSE db.githubItem[cand].number

\* the issue number of the candidate the loop is at
CurrentNumber(p) == NumberAt(items[p][idx[p]])

\* the call, up to its first await: the identity guard of lines 384-390
Call(p, u, its) ==
    /\ pc[p] = "idle"
    /\ user' = [user EXCEPT ![p] = u]
    /\ items' = [items EXCEPT ![p] = its]
    /\ idx' = [idx EXCEPT ![p] = 0]
    /\ trace' = [trace EXCEPT ![p] = << >>]
    /\ outcome' = [outcome EXCEPT ![p] = "none"]
    /\ hadClaim' = [hadClaim EXCEPT ![p] = ClaimsOf(u) # {}]
    /\ pc' = [pc EXCEPT ![p] =
                IF needsIdentityLink(db.user[u]) THEN "postEphemeralLink" ELSE "findFirst"]
    /\ UNCHANGED <<webhook, db, last, remoteAssignees>>

\* client.chat.postEphemeral("You need to connect your GitHub account first")
PostEphemeralLink(p, ok) ==
    /\ pc[p] = "postEphemeralLink"
    /\ Log(p, "chat.postEphemeral:connect", 0, ok)
    /\ End(p, IF ok THEN "returned" ELSE "propagated")
    /\ UNCHANGED <<webhook, db, last, remoteAssignees, user, items, idx, hadClaim>>

\* prisma.volunteerDetail.findFirst and the branch on its result
FindFirst(p, ok) ==
    /\ pc[p] = "findFirst"
    /\ Log(p, "volunteerDetail.findFirst", 0, ok)
    /\ IF ~ok THEN End(p, "propagated") /\ UNCHANGED idx
       ELSE IF volunteerDetailFindFirst(db.volunteerDetail, user[p])
       THEN /\ pc' = [pc EXCEPT ![p] = "postEphemeralAlready"]
            /\ UNCHANGED <<idx, outcome>>
       ELSE /\ idx' = [idx EXCEPT ![p] = NextCand(items[p], 1)]
            /\ pc' = [pc EXCEPT ![p] = LoopPc(items[p], 1)]
            /\ UNCHANGED outcome
    /\ UNCHANGED <<webhook, db, last, remoteAssignees, user, items, hadClaim>>

\* client.chat.postEphemeral("You can only volunteer for one issue at a time")
PostEphemeralAlready(p, ok) ==
    /\ pc[p] = "postEphemeralAlready"
    /\ Log(p, "chat.postEphemeral:already", 0, ok)
    /\ End(p, IF ok THEN "returned" ELSE "propagated")
    /\ UNCHANGED <<webhook, db, last, remoteAssignees, user, items, idx, hadClaim>>

\* await getOctokitToken(owner, name) for the candidate at idx
GetOctokitToken(p, ok) ==
    /\ pc[p] = "getOctokitToken"
    /\ Log(p, "getOctokitToken", CurrentNumber(p), ok)
    /\ IF ok THEN pc' = [pc EXCEPT ![p] = "issuesGet"] /\ UNCHANGED outcome
       ELSE End(p, "caught")
    /\ UNCHANGED <<webhook, db, last, remoteAssignees, user, items, idx, hadClaim>>

\* issues.get without the assignee check after it
IssuesGetNoCheck(p, ok) ==
    /\ pc[p] = "issuesGet"
    /\ Log(p, "issues.get", CurrentNumber(p), ok)
    /\ IF ok THEN pc' = [pc EXCEPT ![p] = "createComment"] /\ UNCHANGED outcome
       ELSE End(p, "caught")
    /\ UNCHANGED <<webhook, db, last, remoteAssignees, user, items, idx, hadClaim>>

\* await octokit.rest.issues.get and the assignee check after it
IssuesGet(p, ok) ==
    /\ pc[p] = "issuesGet"
    /\ Log(p, "issues.get", CurrentNumber(p), ok)
    /\ IF ~ok THEN End(p, "caught") /\ UNCHANGED idx
       ELSE IF remoteAssignees[CurrentNumber(p)] # {}
       THEN /\ idx' = [idx EXCEPT ![p] = NextCand(items[p], idx[p] + 1)]
            /\ pc' = [pc EXCEPT ![p] = LoopPc(items[p], idx[p] + 1)]
            /\ UNCHANGED outcome
       ELSE /\ pc' = [pc EXCEPT ![p] = "createComment"]
            /\ UNCHANGED <<idx, outcome>>
    /\ UNCHANGED <<webhook, db, last, remoteAssignees, user, items, hadClaim>>

\* await userOctokit.rest.issues.createComment, as the volunteer
CreateComment(p, ok) ==
    /\ pc[p] = "createComment"
    /\ Log(p, "issues.createComment", CurrentNumber(p), ok)
    /\ IF ok THEN pc' = [pc EXCEPT ![p] = "addAssignees"] /\ UNCHANGED outcome
       ELSE End(p, "caught")
    /\ UNCHANGED <<webhook, db, last, remoteAssignees, user, items, idx, hadClaim>>

\* addAssignees without the break after it
AddAssigneesNoBreak(p, ok) ==
    /\ pc[p] = "addAssignees"
    /\ Log(p, "issues.addAssignees", CurrentNumber(p), ok)
    /\ IF ok
       THEN /\ remoteAssignees' = [remoteAssignees EXCEPT ![CurrentNumber(p)] =
                                      @ \cup {db.user[user[p]].githubUsername}]
            /\ idx' = [idx EXCEPT ![p] = NextCand(items[p], idx[p] + 1)]
            /\ pc' = [pc EXCEPT ![p] = LoopPc(items[p], idx[p] + 1)]
            /\ UNCHANGED outcome
       ELSE End(p, "caught") /\ UNCHANGED <<remoteAssignees, idx>>
    /\ UNCHANGED <<webhook, db, last, user, items, hadClaim>>

\* addAssignees with its rejection caught inside the loop, which then goes on
AddAssigneesContinue(p, ok) ==
    /\ pc[p] = "addAssignees"
    /\ Log(p, "issues.addAssignees", CurrentNumber(p), ok)
    /\ IF ok
       THEN /\ remoteAssignees' = [remoteAssignees EXCEPT ![CurrentNumber(p)] =
                                      @ \cup {db.user[user[p]].githubUsername}]
            /\ pc' = [pc EXCEPT ![p] = "volunteerDetailCreate"]
            /\ UNCHANGED idx
       ELSE /\ idx' = [idx EXCEPT ![p] = NextCand(items[p], idx[p] + 1)]
            /\ pc' = [pc EXCEPT ![p] = LoopPc(items[p], idx[p] + 1)]
            /\ UNCHANGED remoteAssignees
    /\ UNCHANGED <<webhook, db, last, user, items, outcome, hadClaim>>

\* await octokit.rest.issues.addAssignees, as the app, and the break after it
AddAssignees(p, ok) ==
    /\ pc[p] = "addAssignees"
    /\ Log(p, "issues.addAssignees", CurrentNumber(p), ok)
    /\ IF ok
       THEN /\ remoteAssignees' = [remoteAssignees EXCEPT ![CurrentNumber(p)] =
                                      @ \cup {db.user[user[p]].githubUsername}]
            /\ pc' = [pc EXCEPT ![p] = "volunteerDetailCreate"]
            /\ UNCHANGED outcome
       ELSE End(p, "caught") /\ UNCHANGED remoteAssignees
    /\ UNCHANGED <<webhook, db, last, user, items, idx, hadClaim>>

\* the create placed outside the try: the TypeError of an empty list escapes
VolunteerDetailCreateUncaught(p, ok) ==
    /\ pc[p] = "volunteerDetailCreate"
    /\ IF items[p] = << >>
       THEN End(p, "propagated") /\ UNCHANGED <<db, trace>>
       ELSE IF claimedIssue(items[p], idx[p]) = NoItem \/ ~ok
       THEN /\ Log(p, "volunteerDetail.create", NumberAt(claimedIssue(items[p], idx[p])), FALSE)
            /\ End(p, "propagated")
            /\ UNCHANGED db
       ELSE /\ Log(p, "volunteerDetail.create", NumberAt(claimedIssue(items[p], idx[p])), TRUE)
            /\ db' = [db EXCEPT !.volunteerDetail =
                         volunteerDetailInsert(@, [assignee |-> user[p],
                                                   issue |-> claimedIssue(items[p], idx[p])])]
            /\ pc' = [pc EXCEPT ![p] = "postMessage"]
            /\ UNCHANGED outcome
    /\ UNCHANGED <<webhook, last, remoteAssignees, user, items, idx, hadClaim>>

\* await prisma.volunteerDetail.create after the loop. items[0] of an empty
\* list is undefined (a TypeError before any call); connect {id: undefined}
\* is rejected by the client
VolunteerDetailCreate(p, ok) ==
    /\ pc[p] = "volunteerDetailCreate"
    /\ IF items[p] = << >>
       THEN End(p, "caught") /\ UNCHANGED <<db, trace>>
       ELSE IF claimedIssue(items[p], idx[p]) = NoItem \/ ~ok
       THEN /\ Log(p, "volunteerDetail.create", NumberAt(claimedIssue(items[p], idx[p])), FALSE)
            /\ End(p, "caught")
            /\ UNCHANGED db
       ELSE /\ Log(p, "volunteerDetail.create", NumberAt(claimedIssue(items[p], idx[p])), TRUE)
            /\ db' = [db EXCEPT !.volunteerDetail =
                         volunteerDetailInsert(@, [assignee |-> user[p],
                                                   issue |-> claimedIssue(items[p], idx[p])])]
            /\ pc' = [pc EXCEPT ![p] = "postMessage"]
            /\ UNCHANGED outcome
    /\ UNCHANGED <<webhook, last, remoteAssignees, user, items, idx, hadClaim>>

\* await client.chat.postMessage("You have been assigned to issue ...")
PostMessage(p, ok) ==
    /\ pc[p] = "postMessage"
    /\ Log(p, "chat.postMessage:assigned", 0, ok)
    /\ End(p, IF ok THEN "returned" ELSE "caught")
    /\ UNCHANGED <<webhook, db, last, remoteAssignees, user, items, idx, hadClaim>>

\* the webhook deliveries that may be handled together
Deliveries == {1, 2}

\* a createGithubItem call that has not started
NotCalled ==
    [pc |-> "idle", payload |-> << >>, author |-> 0, existing |-> FALSE, resolvedAt |-> 0,
     result |-> "none", error |-> ""]

\* no delivery in flight over store d, one workflow record per stored item
WebhookIdle(d) ==
    [call |-> [c \in Deliveries |-> NotCalled],
     actionItems |-> [n \in NodeIds |-> IF n \in DOMAIN d.githubItem THEN 1 ELSE 0]]

AssignIdle ==
    /\ pc = [p \in Procs |-> "idle"]
    /\ user = [p \in Procs |-> 1]
    /\ items = [p \in Procs |-> << >>]
    /\ idx = [p \in Procs |-> 0]
    /\ trace = [p \in Procs |-> << >>]
    /\ outcome = [p \in Procs |-> "none"]
    /\ hadClaim = [p \in Procs |-> FALSE]

\* the remote issues of the stored items, each unassigned or taken by an outsider
InitAssign ==
    /\ db = AssignDb
    /\ last = << >>
    /\ remoteAssignees \in [{7, 8} -> {{}, {"zed"}}]
    /\ AssignIdle
    /\ webhook = WebhookIdle(AssignDb)

NextAssign ==
    \/ \E p \in Procs, u \in Volunteers, its \in CandidateLists : Call(p, u, its)
    \/ \E p \in Procs, ok \in BOOLEAN :
          \/ PostEphemeralLink(p, ok)
          \/ FindFirst(p, ok)
          \/ PostEphemeralAlready(p, ok)
          \/ GetOctokitToken(p, ok)
          \/ IssuesGet(p, ok)
          \/ CreateComment(p, ok)
          \/ AddAssignees(p, ok)
          \/ VolunteerDetailCreate(p, ok)
          \/ PostMessage(p, ok)

SpecAssign == InitAssign /\ [][NextAssign]_vars

-----------------------------------------------------------------------------
(* Properties of assignIssueToVolunteer, checked under SpecAssign *)

\* calls to the remote platform
RemoteOps == {"getOctokitToken", "issues.get", "issues.createComment", "issues.addAssignees"}

\* request p made call op successfully at position k of its trace
Did(p, k, op) == trace[p][k].op = op /\ trace[p][k].ok

\* user u lacks a github username or a token
Unlinked(u) == db.user[u].githubUsername = "" \/ db.user[u].githubToken = ""

\* C1: every volunteer has at most one Volunteer Claim in every reachable
\* state, also when two requests of the same volunteer interleave.
C1_SingleActiveClaim ==
    \A u \in DOMAIN db.user : Cardinality(ClaimsOf(u)) <= 1

\* C2: a request inserts a Volunteer Claim, and sends the 'assigned'
\* notification, only after its addAssignees call succeeded for a candidate.
C2_ClaimOnlyAfterRemoteSuccess ==
    \A p \in Procs : \A k \in DOMAIN trace[p] :
        (Did(p, k, "volunteerDetail.create") \/ trace[p][k].op = "chat.postMessage:assigned")
            => \E j \in 1..(k - 1) : Did(p, j, "issues.addAssignees")

\* C3: the Volunteer Claim a request creates is linked to the candidate its
\* addAssignees call succeeded on.
C3_ClaimLinksAssignedCandidate ==
    \A p \in Procs : \A j, k \in DOMAIN trace[p] :
        (Did(p, j, "issues.addAssignees") /\ Did(p, k, "volunteerDetail.create"))
            => trace[p][k].n = trace[p][j].n

\* C4: a request of a volunteer who held a claim when it was called makes no
\* remote call and inserts no claim; a linked volunteer is told so and nothing else.
C4_AlreadyVolunteeringNoEffect ==
    \A p \in Procs :
        (pc[p] # "idle" /\ hadClaim[p]) =>
            /\ \A k \in DOMAIN trace[p] :
                  trace[p][k].op \notin RemoteOps \cup {"volunteerDetail.create"}
            /\ (~Unlinked(user[p]) /\ outcome[p] = "returned") =>
                  trace[p] = <<Called("volunteerDetail.findFirst", 0, TRUE),
                               Called("chat.postEphemeral:already", 0, TRUE)>>

C4_Witness ==
    \E p \in Procs :
        /\ hadClaim[p] /\ ~Unlinked(user[p]) /\ Len(items[p]) = 2
        /\ pc[p] = "done" /\ outcome[p] = "returned"

\* C5: a request of a volunteer without github username or without token only
\* posts the connect-your-account message: no store read, no store write and
\* no remote call, whatever the candidates and whether or not a claim is held.
C5_NeedsIdentityLinkFirst ==
    \A p \in Procs :
        (pc[p] # "idle" /\ Unlinked(user[p])) =>
            /\ Len(trace[p]) <= 1
            /\ \A k \in DOMAIN trace[p] : trace[p][k].op = "chat.postEphemeral:connect"
            /\ pc[p] \in {"postEphemeralLink", "done"}
            /\ outcome[p] = "returned" => trace[p] = <<Called("chat.postEphemeral:connect", 0, TRUE)>>

C5_Witness ==
    \E p \in Procs :
        /\ Unlinked(user[p]) /\ hadClaim[p] /\ Len(items[p]) = 2
        /\ pc[p] = "done" /\ outcome[p] = "returned"

\* C6: a rejected remote call of the candidate loop is the last thing its
\* request does: no later candidate, no claim, no notification, and the
\* rejection is caught.
C6_RemoteFailureAborts ==
    \A p \in Procs : \A k \in DOMAIN trace[p] :
        (trace[p][k].op \in RemoteOps /\ ~trace[p][k].ok) =>
            /\ k = Len(trace[p])
            /\ pc[p] = "done"
            /\ outcome[p] = "caught"

C6_Witness ==
    \E p \in Procs :
        /\ pc[p] = "done" /\ idx[p] = 1 /\ Len(items[p]) = 2 /\ items[p][2] # NoItem
        /\ trace[p][Len(trace[p])] = Called("issues.addAssignees", CurrentNumber(p), FALSE)
        /\ ClaimsOf(user[p]) = {}

\* C14: the candidate that gets assigned was commented on, as the volunteer,
\* right before addAssignees was called as the app; after addAssignees has
\* succeeded the request makes no further remote call, so at most one
\* addAssignees call of a request succeeds.
C14_CommentThenAssignThenStop ==
    \A p \in Procs : \A k \in DOMAIN trace[p] :
        Did(p, k, "issues.addAssignees") =>
            /\ k > 1
            /\ Did(p, k - 1, "issues.createComment")
            /\ trace[p][k - 1].n = trace[p][k].n
            /\ trace[p][k - 1].auth = "volunteer"
            /\ trace[p][k].auth = "app"
            /\ \A j \in (k + 1)..Len(trace[p]) : trace[p][j].op \notin RemoteOps

\* the first of two backed candidates was assigned and the request went on
\* to its end
C14_Witness ==
    \E p \in Procs :
        /\ Len(items[p]) = 2 /\ items[p][1] # NoItem /\ items[p][2] # NoItem
        /\ pc[p] = "done" /\ outcome[p] = "returned"
        /\ \E k \in DOMAIN trace[p] :
              Did(p, k, "issues.addAssignees") /\ trace[p][k].n = NumberAt(items[p][1])

\* the place in request p's candidate list of the candidate with issue number n
IndexOf(p, n) == CHOOSE k \in DOMAIN items[p] : NumberAt(items[p][k]) = n

\* request p has fetched the remote issue n by position k of its trace
Fetched(p, n, k) == \E j \in 1..k : Did(p, j, "issues.get") /\ trace[p][j].n = n

\* the remote calls of every request go down its candidate list: each is on a
\* candidate with a backing Item, no earlier than the calls before it, and
\* every backed candidate above it was fetched before
VisitedInOrder ==
    \A p \in Procs : \A k \in DOMAIN trace[p] :
        trace[p][k].op \in RemoteOps =>
            /\ trace[p][k].n # 0
            /\ \E i \in DOMAIN items[p] : NumberAt(items[p][i]) = trace[p][k].n
            /\ \A j \in 1..(k - 1) :
                  trace[p][j].op \in RemoteOps => IndexOf(p, trace[p][j].n) <= IndexOf(p, trace[p][k].n)
            /\ \A i \in 1..(IndexOf(p, trace[p][k].n) - 1) :
                  items[p][i] # NoItem => Fetched(p, NumberAt(items[p][i]), k)

\* a request gets to comment only from a fetch that found no assignee, gets
\* to assign only from the comment on the same candidate, and a fetch that
\* finds an assignee moves the loop on
SkipsAssigned ==
    \A p \in Procs :
        /\ (pc'[p] = "createComment" /\ pc[p] # "createComment") =>
              /\ pc[p] = "issuesGet"
              /\ idx'[p] = idx[p]
              /\ remoteAssignees[CurrentNumber(p)] = {}
        /\ (pc'[p] = "addAssignees" /\ pc[p] # "addAssignees") =>
              pc[p] = "createComment" /\ idx'[p] = idx[p]
        /\ (pc[p] = "issuesGet" /\ pc'[p] \notin {"issuesGet", "done"}
              /\ remoteAssignees[CurrentNumber(p)] # {}) =>
              /\ idx'[p] > idx[p]
              /\ pc'[p] \in {"getOctokitToken", "volunteerDetailCreate"}

\* C15: a request visits its candidates in list order; it never comments on
\* or assigns a candidate without backing Item or one whose fetched remote
\* issue has an assignee: that candidate is skipped and the next one tried.
C15_InOrderSkipping == [][SkipsAssigned /\ VisitedInOrder']_vars

\* the first candidate has no Item, the second was fetched and found
\* assigned, and the request went past both
C15_Witness ==
    \E p \in Procs :
        /\ Len(items[p]) = 2 /\ items[p][1] = NoItem
        /\ pc[p] = "volunteerDetailCreate" /\ idx[p] = 3
        /\ trace[p][Len(trace[p])] = Called("issues.get", NumberAt(items[p][2]), TRUE)
        /\ remoteAssignees[NumberAt(items[p][2])] # {}

\* C20: a linked volunteer without a claim who calls with an empty candidate
\* list, and whose claim lookup finds nothing, makes no remote call, creates
\* no claim, gets no 'assigned' notification, and no error reaches the caller.
C20_EmptyListIsQuiet ==
    \A p \in Procs :
        (pc[p] # "idle" /\ items[p] = << >> /\ ~Unlinked(user[p]) /\ ~hadClaim[p]) =>
            /\ \A k \in DOMAIN trace[p] :
                  trace[p][k].op \notin RemoteOps \cup {"volunteerDetail.create", "chat.postMessage:assigned"}
            /\ (pc[p] = "done" /\ trace[p] = <<Called("volunteerDetail.findFirst", 0, TRUE)>>) =>
                  outcome[p] = "caught"

\* such a request has ended after its lookup alone
C20_Witness ==
    \E p \in Procs :
        /\ items[p] = << >> /\ ~Unlinked(user[p]) /\ ~hadClaim[p]
        /\ pc[p] = "done" /\ outcome[p] = "caught"
        /\ trace[p] = <<Called("volunteerDetail.findFirst", 0, TRUE)>>
        /\ ClaimsOf(user[p]) = {}

-----------------------------------------------------------------------------
(* createGithubItem, one step per await, two deliveries handled together *)

\* the deliveries that race: the three label lists of I_1, two of PR_2 (same
\* author), the maintainer's item and the unmonitored one
RacingPayloads == {P \in Payloads : P.name = "n1" /\ P.updated_at = 1}

\* the payload of call c
Arg(c) == webhook.call[c].payload[1]

\* call c leaves createGithubItem: by return, by a rejected await, or at its end
Leave(c, result, error) ==
    webhook' = [webhook EXCEPT !.call[c].pc = "finished",
                               !.call[c].result = result,
                               !.call[c].error = error]

\* a store that lets a second row with the same username in
usernameTakenNever(d, login) == FALSE

\* the store's unique key on the remote username of User
usernameTaken(d, login) ==
    login # "" /\ \E k \in DOMAIN d.user : d.user[k].githubUsername = login

\* the webhook arrives: getProjectName and the project check
Deliver(c, P) ==
    /\ webhook.call[c].pc = "idle"
    /\ webhook' = [webhook EXCEPT !.call[c] =
                      IF unmonitored(getProjectName(P.url))
                      THEN [@ EXCEPT !.pc = "finished", !.payload = <<P>>, !.result = "returned"]
                      ELSE [@ EXCEPT !.pc = "repositoryUpsert", !.payload = <<P>>]]
    /\ UNCHANGED <<db, last, assignVars>>

\* await prisma.repository.upsert and the maintainer check after it
RepositoryUpsert(c, ok) ==
    /\ webhook.call[c].pc = "repositoryUpsert"
    /\ IF ~ok THEN Leave(c, "thrown", "store") /\ UNCHANGED db
       ELSE /\ db' = repositoryUpsert(db, Arg(c))
            /\ IF maintainerAuthored(getMaintainers(Arg(c).url), Arg(c).login)
               THEN Leave(c, "returned", "")
               ELSE webhook' = [webhook EXCEPT !.call[c].pc = "userFindFirst"]
    /\ UNCHANGED <<last, assignVars>>

\* await prisma.user.findFirst and the branch on its result
UserFindFirst(c, ok) ==
    /\ webhook.call[c].pc = "userFindFirst"
    /\ IF ~ok THEN Leave(c, "thrown", "store")
       ELSE LET found == userFindFirst(db, Arg(c).login)
            IN  webhook' = [webhook EXCEPT
                              !.call[c].author = found,
                              !.call[c].pc = IF found = 0 THEN "userCreate" ELSE "actionItemFindFirst"]
    /\ UNCHANGED <<db, last, assignVars>>

\* await prisma.user.create
UserCreate(c, ok) ==
    /\ webhook.call[c].pc = "userCreate"
    /\ IF ~ok THEN Leave(c, "thrown", "store") /\ UNCHANGED db
       ELSE IF usernameTaken(db, Arg(c).login) THEN Leave(c, "thrown", "unique") /\ UNCHANGED db
       ELSE /\ db' = userCreate(db, Arg(c).login)
            /\ webhook' = [webhook EXCEPT !.call[c].author = Len(db'.user),
                                           !.call[c].pc = "actionItemFindFirst"]
    /\ UNCHANGED <<last, assignVars>>

\* await prisma.actionItem.findFirst
ActionItemFindFirst(c, ok) ==
    /\ webhook.call[c].pc = "actionItemFindFirst"
    /\ IF ~ok THEN Leave(c, "thrown", "store")
       ELSE webhook' = [webhook EXCEPT
                          !.call[c].existing = Arg(c).node_id \in DOMAIN db.githubItem,
                          !.call[c].resolvedAt = actionItemResolvedAt(db, Arg(c).node_id),
                          !.call[c].pc = "githubItemUpsert"]
    /\ UNCHANGED <<db, last, assignVars>>

\* an upsert that picks its branch from the actionItem read before it
GithubItemUpsertStale(c, ok) ==
    /\ webhook.call[c].pc = "githubItemUpsert"
    /\ IF ~ok THEN Leave(c, "thrown", "store") /\ UNCHANGED db
       ELSE LET P == Arg(c)
                row == IF webhook.call[c].existing
                       THEN githubItemUpdate(db.githubItem[P.node_id], P, webhook.call[c].resolvedAt)
                       ELSE githubItemCreate(P, webhook.call[c].author, P.url)
            IN  /\ db' = [db EXCEPT !.githubItem = Put(@, P.node_id, row),
                                    !.label = @ \cup Range(P.labels)]
                /\ webhook' = [webhook EXCEPT
                                 !.actionItems[P.node_id] = IF webhook.call[c].existing THEN @ ELSE @ + 1,
                                 !.call[c].pc = "finished",
                                 !.call[c].result = "done"]
    /\ UNCHANGED <<last, assignVars>>

\* await prisma.githubItem.upsert, one store operation, and indexDocument
GithubItemUpsert(c, ok) ==
    /\ webhook.call[c].pc = "githubItemUpsert"
    /\ IF ~ok THEN Leave(c, "thrown", "store") /\ UNCHANGED db
       ELSE LET P == Arg(c)
            IN  /\ db' = githubItemUpsert(db, P, webhook.call[c].author, P.url,
                                          webhook.call[c].resolvedAt)
                /\ webhook' = [webhook EXCEPT
                                 !.actionItems[P.node_id] =
                                     IF P.node_id \in DOMAIN db.githubItem THEN @ ELSE @ + 1,
                                 !.call[c].pc = "finished",
                                 !.call[c].result = "done"]
    /\ UNCHANGED <<last, assignVars>>

\* the deliveries start on an empty store or on one that holds I_1 and PR_2
InitConcurrent ==
    /\ db \in {EmptyDb, ReconciledDb}
    /\ last = << >>
    /\ remoteAssignees = [n \in {7, 8} |-> {}]
    /\ AssignIdle
    /\ webhook = WebhookIdle(db)

NextConcurrent ==
    \/ \E c \in Deliveries, P \in RacingPayloads : Deliver(c, P)
    \/ \E c \in Deliveries, ok \in BOOLEAN :
          \/ RepositoryUpsert(c, ok)
          \/ UserFindFirst(c, ok)
          \/ UserCreate(c, ok)
          \/ ActionItemFindFirst(c, ok)
          \/ GithubItemUpsert(c, ok)

SpecConcurrent == InitConcurrent /\ [][NextConcurrent]_vars

-----------------------------------------------------------------------------
(* Properties of concurrent createGithubItem calls, checked under SpecConcurrent *)

\* call c has run to its end
Done(c) == webhook.call[c].pc = "finished" /\ webhook.call[c].result = "done"

\* both calls are over, they were for the same node id, and one ran to its end
SameNodeOver ==
    /\ \A c \in Deliveries : webhook.call[c].pc = "finished"
    /\ Arg(1).node_id = Arg(2).node_id
    /\ \E c \in Deliveries : Done(c)

\* C13: after two createGithubItem calls for the same node id have been
\* handled together, the store holds one Item for it, one workflow record
\* was ever created for it, and its labels are those of one of the payloads
\* that ran to the end: never a mixture of both.
C13_ConcurrentSameNode ==
    SameNodeOver =>
        LET n == Arg(1).node_id
        IN  /\ n \in DOMAIN db.githubItem
            /\ webhook.actionItems[n] = 1
            /\ db.githubItem[n].labelsOnItems \in
                   {Range(Arg(c).labels) : c \in {x \in Deliveries : Done(x)}}

\* both calls read that the item did not exist before either upserted it,
\* and their label lists differ
C13_Witness ==
    /\ SameNodeOver
    /\ Done(1) /\ Done(2)
    /\ ~webhook.call[1].existing /\ ~webhook.call[2].existing
    /\ Arg(1).labels = <<"A", "B">> /\ Arg(2).labels = <<"B", "C">>

-----------------------------------------------------------------------------
(* The reconciler on its own *)

InitReconcile ==
    /\ db = EmptyDb
    /\ last = << >>
    /\ remoteAssignees = [n \in {7, 8} |-> {}]
    /\ AssignIdle
    /\ webhook = WebhookIdle(EmptyDb)

NextReconcile ==
    \/ \E P \in Payloads, fail \in StoreOps \cup {"none"} : CreateGithubItem(P, fail)
    \/ \E n \in NodeIds : EnvResolve(n)
    \/ \E n \in NodeIds : EnvReply(n)

SpecReconcile == InitReconcile /\ [][NextReconcile]_vars

-----------------------------------------------------------------------------
(* Properties of createGithubItem, checked under SpecReconcile *)

\* the previous step was createGithubItem(P) running to its end
LastDone(P) == last # << >> /\ last[1].payload = <<P>>

\* the previous step was a createGithubItem that returned early
LastDropped == last # << >> /\ last[1].result = "returned"

\* this step is a delivery of P, whichever store operation rejects
Delivery(P) == \E fail \in StoreOps \cup {"none"} : CreateGithubItem(P, fail)

\* C7: after createGithubItem(P) has run, running it again changes nothing in
\* the store: no second Repository, User, Item, Workflow Record or label row,
\* and no field changes.
C7_IdempotentReconcile ==
    \A P \in Payloads : LastDone(P) => createGithubItem(db, P, "none").db = db

C7_Witness ==
    \E P \in Payloads :
        /\ LastDone(P) /\ P.labels # << >>
        /\ db.githubItem[P.node_id].actionItem.resolvedAt # 0
        /\ db.githubItem[P.node_id].actionItem.totalReplies = 1
        /\ db.githubItem[P.node_id].updatedAt > db.githubItem[P.node_id].createdAt

\* C8: after createGithubItem(P) has run, the item's labels are exactly those
\* of P, its state is open and its updatedAt is P's.
C8_LabelSnapshot ==
    \A P \in Payloads :
        LastDone(P) =>
            /\ db.githubItem[P.node_id].labelsOnItems = Range(P.labels)
            /\ db.githubItem[P.node_id].state = "open"
            /\ db.githubItem[P.node_id].updatedAt = P.updated_at

\* label A is in the label table, so I_1 carried {A, B} before this delivery
C8_Witness ==
    \E P \in Payloads :
        /\ LastDone(P) /\ P.node_id = NodeI1 /\ P.updated_at = 2
        /\ "A" \in db.label
        /\ db.githubItem[NodeI1].labelsOnItems \in {{"B", "C"}, {}}

\* C9 as stated: a delivery of a maintainer's item leaves the store unchanged.
C9_MaintainerLeavesStore ==
    [][\A P \in Payloads : (P.login \in getMaintainers(P.url) /\ Delivery(P)) => db' = db]_vars

\* C9 as amended: a delivery of a maintainer's item changes no User, Item,
\* Workflow Record, label or claim; of the repositories it touches only the
\* payload's, which it leaves either as it was or created/renamed from the payload.
C9_MaintainerOnlyUpsertsRepository ==
    [][\A P \in Payloads :
          (P.login \in getMaintainers(P.url) /\ Delivery(P)) =>
              /\ db'.user = db.user
              /\ db'.githubItem = db.githubItem
              /\ db'.label = db.label
              /\ db'.volunteerDetail = db.volunteerDetail
              /\ \A u \in DOMAIN db.repository \ {P.url} :
                    u \in DOMAIN db'.repository /\ db'.repository[u] = db.repository[u]
              /\ \/ db'.repository = db.repository
                 \/ /\ DOMAIN db'.repository = DOMAIN db.repository \cup {P.url}
                    /\ db'.repository[P.url] = [name |-> P.name, owner |-> P.owner, url |-> P.url]]_vars

\* a maintainer's delivery was the first one: it returned early and left a Repository
C9_Witness ==
    /\ LastDropped
    /\ DOMAIN db.repository = {"R1"}
    /\ DOMAIN db.githubItem = {}
    /\ Len(db.user) = Len(InitUsers)

\* C10: a delivery from a repository outside the project mapping changes
\* nothing in the store, triggers no indexing and returns without an error.
C10_UnmonitoredDropped ==
    [][\A P \in Payloads :
          (getProjectName(P.url) = "" /\ Delivery(P)) =>
              /\ db' = db
              /\ last'[1].result = "returned"
              /\ ~last'[1].indexed]_vars

\* an early return with no Repository stored: the delivery was an unmonitored one
C10_Witness ==
    /\ LastDropped
    /\ ~last[1].indexed
    /\ db = EmptyDb

\* the previous step was a createGithubItem that rejected
LastThrown == last # << >> /\ last[1].result = "thrown"

\* C11: createGithubItem never throws outward: whatever its store operations
\* do, the call completes without raising an error.
C11_NeverThrows == ~LastThrown

\* the node identifier begins with the two characters I and _
BeginsWithI(nodeId) == Len(nodeId) >= 2 /\ nodeId[1] = "I" /\ nodeId[2] = "_"

\* C12: every stored Item is an issue if its node identifier begins with
\* "I_" and a pull request otherwise, after creation and after every update.
C12_KindFromPrefix ==
    \A n \in DOMAIN db.githubItem :
        db.githubItem[n].type = IF BeginsWithI(n) THEN "issue" ELSE "pull_request"

\* both kinds are stored, and I_1 has been updated since it was created
C12_Witness ==
    /\ DOMAIN db.githubItem = {NodeI1, NodePR2}
    /\ db.githubItem[NodeI1].updatedAt > db.githubItem[NodeI1].createdAt
    /\ db.githubItem[NodeI1].type = "issue"
    /\ db.githubItem[NodePR2].type = "pull_request"

\* this step is a delivery that runs to its end on an Item already stored
IsUpdate ==
    /\ last' # << >>
    /\ last'[1].payload # << >>
    /\ last'[1].payload[1].node_id \in DOMAIN db.githubItem

\* C16: the update path sets the Item's state to open, the Workflow Record's
\* status to closed if it had a resolution timestamp and to open otherwise,
\* and empties its participant list.
C16_UpdatePath ==
    [][IsUpdate =>
          LET n == last'[1].payload[1].node_id
          IN  /\ db'.githubItem[n].state = "open"
              /\ db'.githubItem[n].actionItem.status =
                    IF db.githubItem[n].actionItem.resolvedAt # 0 THEN "closed" ELSE "open"
              /\ db'.githubItem[n].actionItem.participants = {}]_vars

\* an update has run on a resolved Item that had a participant: one reply is
\* counted, nobody participates, and the record is closed
C16_Witness ==
    \E P \in Payloads :
        /\ LastDone(P)
        /\ db.githubItem[P.node_id].actionItem =
              [status |-> "closed", totalReplies |-> 1, resolvedAt |-> 1, participants |-> {}]

\* this step is a delivery, however it ends
IsDelivery == last' # << >>

\* C17: no delivery clears or changes the resolution timestamp of a resolved
\* Workflow Record, or its total reply count.
C17_ResolutionKept ==
    [][IsDelivery =>
          \A n \in DOMAIN db.githubItem :
              db.githubItem[n].actionItem.resolvedAt # 0 =>
                  /\ n \in DOMAIN db'.githubItem
                  /\ db'.githubItem[n].actionItem.resolvedAt = db.githubItem[n].actionItem.resolvedAt
                  /\ db'.githubItem[n].actionItem.totalReplies = db.githubItem[n].actionItem.totalReplies]_vars

\* a delivery has updated a resolved Item with a counted reply
C17_Witness ==
    \E P \in Payloads :
        /\ LastDone(P) /\ P.updated_at = 2
        /\ db.githubItem[P.node_id].actionItem.resolvedAt = 1
        /\ db.githubItem[P.node_id].actionItem.totalReplies = 1

\* C18: whichever store operation of createGithubItem(P) rejects, the writes
\* made before it stay, and a following successful createGithubItem(P) leaves
\* the store a single uninterrupted createGithubItem(P) would have left, with
\* no second Repository or User row.
C18_ConvergesAfterFailure ==
    \A P \in Payloads : \A fail \in StoreOps :
        LET partial == createGithubItem(db, P, fail).db
        IN  /\ createGithubItem(partial, P, "none").db = createGithubItem(db, P, "none").db
            /\ \A u \in DOMAIN db.repository : u \in DOMAIN partial.repository
            /\ Len(partial.user) >= Len(db.user)
            /\ Len(createGithubItem(partial, P, "none").db.user) <= Len(db.user) + 1

\* a delivery rejected after it had created the author: the User row stays,
\* no Item is stored
C18_Witness ==
    /\ LastThrown
    /\ Len(db.user) = Len(InitUsers) + 1
    /\ DOMAIN db.repository = {"R1"}
    /\ DOMAIN db.githubItem = {}

====
